---- MODULE Spec2Model ----
(***************************************************************************)
(* PKCE access-token acquisition (get-pkce-token.js): discovery of the     *)
(* authorization server, issuer metadata, dynamic client registration,     *)
(* PKCE pair, authorization URL, local callback listener, token exchange.  *)
(*                                                                         *)
(* One step of the model is one run-to-completion segment of the           *)
(* JavaScript code: from one `await` (or event) to the next.  An outbound  *)
(* fetch whose answer is awaited by a flow that can do nothing else in     *)
(* the meantime is taken together with its answer; the token-exchange      *)
(* fetch inside the /callback handler is split from its answer, because    *)
(* the HTTP server keeps delivering requests while that fetch is pending.  *)
(***************************************************************************)
EXTENDS Integers, Sequences, FiniteSets, TLC

\* ------------------------------------------------------------------ bounds

\* Callback requests delivered to the listeners of the process.
MaxRequests == 2

\* Requests on other paths delivered to one listener.
MaxOthers == 1

\* /auth/github requests and /auth/callback requests the Git service
\* receives, each.
MaxCallbacks == 2

\* Steps of the clock of the Git service, of 150 seconds each.
MaxTicks == 3

\* ------------------------------------------------------------- value sets

AllFlows == {1, 2}

NoVal == "undefined"

McpUrls == {"https://mcp.example/v1/sse", "not a url"}

DEFAULT_REDIRECT_URI == "http://localhost:3000/callback"

\* options.redirectUri as the caller passes it (NoVal: not passed)
RedirectUriOptions == {NoVal, "http://localhost:8080/callback"}

\* options.redirectUri over every shape of URL the port derivation tells apart
AllRedirectUriOptions ==
    RedirectUriOptions \cup
        {"https://app.example/callback", "http://app.example/callback", "not a url"}

\* options.port as the caller passes it: <<>> when not passed, else <<n>>
NoPort == <<>>

PortOptions == {NoPort, <<9000>>}

Ports == {3000}

DefaultScope == "read:jira-work"

\* Values of the WWW-Authenticate header of the answer to GET mcpUrl
\* ("null": the header is absent).
WwwAuthHeaders ==
    {"null", "Bearer realm=mcp", "Bearer resource=https://rs.example/meta"}

\* client_id values the registration endpoint hands out
ClientIds == {"client-1"}

\* client_id values handed out to two registrations, in their order
ClientIdOf == [f \in AllFlows |-> IF f = 1 THEN "client-1" ELSE "client-2"]

Verifiers == {"verifier-1", "verifier-2"}

Codes == {"code-1"}

ErrorCodes == {"access_denied"}

ErrorDescriptions == {"user denied", NoVal}

\* Token endpoint answers: HTTP status and body text.
OkBodies == {"{access_token:abc,expires_in:3600}", "{access_token:xyz}", "not json"}

ErrorStatuses == {400, 500}

ErrorBodies == {"invalid_grant"}

\* --------------------------------------------------------------- variables

VARIABLES
    opts,       \* opts[f]: the arguments of invocation f (mcpUrl and options)
    pc,         \* pc[f]: where the async function of invocation f stands
    local,      \* local[f]: its local constants (discoveryUrl, issuer, client, PKCE pair)
    log,        \* log[f]: the outbound requests and side effects it issued, in order
    listener,   \* listener[f]: state of its http.Server
    reqs,       \* reqs[f]: the /callback requests its server delivered
    closeCbs,   \* closeCbs[f]: callbacks registered by server.close(cb), in order
    promise,    \* promise[f]: the promise returned to the caller
    busyPorts,  \* TCP ports bound by other processes
    others,     \* others[f]: requests its server answered on paths other than /callback
    \* OAuth Git service (git-oauth/client.js)
    userTokens,   \* Map userId -> token data
    userSessions, \* Map state -> {userId, timestamp}
    now,          \* Date.now(), in milliseconds since the service started
    issued,       \* every state generateSecureState handed out, with its userId
    gitReqs,      \* the /auth/callback requests the service received
    lastClone,    \* the latest /git/clone request and what the service did with it
    lastStatus,   \* the latest /auth/status request and its answer
    \* Example scripts (example-*.js)
    script        \* the script the process runs: its environment, position and effects

gitVars == <<userTokens, userSessions, now, issued, gitReqs, lastClone, lastStatus>>

vars ==
    <<opts, pc, local, log, listener, reqs, closeCbs, promise, busyPorts, others,
      gitVars, script>>

\* ---------------------------------------------------------- pure functions

\* new URL(u): whether the string parses.
UrlValid(u) == u \notin {"not a url", NoVal}

\* url.protocol
UrlProtocol(u) == IF u = "https://app.example/callback" THEN "https:" ELSE "http:"

\* url.port ("" when the URL names none)
UrlPort(u) ==
    CASE u = "http://localhost:3000/callback" -> "3000"
      [] u = "http://localhost:8080/callback" -> "8080"
      [] OTHER -> ""

\* parseInt of a port string
ParseInt(s) ==
    CASE s = "3000" -> 3000
      [] s = "8080" -> 8080
      [] OTHER -> 0

getPortFromRedirectUri(redirectUri) ==
    IF UrlValid(redirectUri)
    THEN IF UrlPort(redirectUri) # ""
         THEN ParseInt(UrlPort(redirectUri))
         ELSE IF UrlProtocol(redirectUri) = "https:" THEN 443 ELSE 80
    ELSE 3000

\* wwwAuth.match(/resource="([^"]+)"/): the captured URL, or NoVal
ResourceMatch(h) ==
    IF h = "Bearer resource=https://rs.example/meta"
    THEN "https://rs.example/meta"
    ELSE NoVal

\* `${protocol}//${host}/.well-known/oauth-authorization-server`
AuthServerMetadataUrl(u) ==
    IF u = "https://mcp.example/v1/sse"
    THEN "https://mcp.example/.well-known/oauth-authorization-server"
    ELSE NoVal

\* `${protocol}//${host}/.well-known/openid-configuration`
OidcDiscoveryUrl(u) ==
    IF u = "https://mcp.example/v1/sse"
    THEN "https://mcp.example/.well-known/openid-configuration"
    ELSE NoVal

\* generators.codeChallenge: base64url(SHA-256(verifier))
CodeChallenge(v) ==
    CASE v = "verifier-1" -> "S256-of-verifier-1"
      [] v = "verifier-2" -> "S256-of-verifier-2"
      [] OTHER -> "S256-of-other"

\* tokenResponse.ok
ResponseOk(status) == status \in 200..299

\* tokenResponse.statusText
StatusText(status) ==
    CASE status = 200 -> "OK"
      [] status = 400 -> "Bad Request"
      [] status = 500 -> "Internal Server Error"
      [] OTHER -> ""

\* tokenResponse.json(): the parsed body, or NoVal when parsing throws
ParseJson(body) ==
    CASE body = "{access_token:abc,expires_in:3600}" ->
            [access_token |-> "abc", expires_in |-> "3600"]
      [] body = "{access_token:xyz}" ->
            [access_token |-> "xyz", expires_in |-> NoVal]
      [] OTHER -> [access_token |-> NoVal, expires_in |-> NoVal]

JsonValid(body) == body # "not json"

\* An Error object: its message template and the values interpolated into it.
Err(msg, args) == [msg |-> msg, args |-> args]

\* An event of the log: kind, target URL, parameters (name/value pairs) and,
\* for a request awaited on the spot, the answer that came back.
Event(kind, url, params, answer) ==
    [kind |-> kind, url |-> url, params |-> params, answer |-> answer]

\* ------------------------------------------------------------------ state

Options ==
    [mcpUrl : McpUrls, redirectUri : RedirectUriOptions, port : {NoPort},
     openBrowser : BOOLEAN]

\* Invocations over every redirect URI shape, with and without options.port
AllOptions ==
    [mcpUrl : {"https://mcp.example/v1/sse"}, redirectUri : AllRedirectUriOptions,
     port : PortOptions, openBrowser : BOOLEAN]

NoOptions == [mcpUrl |-> "https://mcp.example/v1/sse", redirectUri |-> NoVal,
              port |-> NoPort, openBrowser |-> FALSE]

NoErr == Err("", <<>>)

NoToken == [access_token |-> NoVal, expires_in |-> NoVal]

NoLocal == [discoveryUrl |-> NoVal, token_endpoint |-> NoVal,
            authorization_endpoint |-> NoVal, client_id |-> NoVal,
            code_verifier |-> NoVal, code_challenge |-> NoVal]

Pending == [state |-> "pending", err |-> NoErr, tokenSet |-> NoToken, by |-> "none"]

\* The destructured parameter `redirectUri = DEFAULT_REDIRECT_URI`
RedirectUri(f) ==
    IF opts[f].redirectUri = NoVal THEN DEFAULT_REDIRECT_URI ELSE opts[f].redirectUri

\* Faulty variant: the port is always the default one
PortAlwaysDefault(f) ==
    IF opts[f].port # NoPort THEN opts[f].port[1] ELSE 3000

\* The destructured parameter
\* `port = getPortFromRedirectUri(options.redirectUri || DEFAULT_REDIRECT_URI)`
Port(f) ==
    IF opts[f].port # NoPort
    THEN opts[f].port[1]
    ELSE getPortFromRedirectUri(IF opts[f].redirectUri # NoVal
                                THEN opts[f].redirectUri
                                ELSE DEFAULT_REDIRECT_URI)

\* Ports on which some flow's server of this process is listening
HeldPorts == {Port(f) : f \in {g \in AllFlows : listener[g] = "listening"}}

\* resolve(v) / reject(e) on a promise: only the first settlement counts
Settle(p, state, err, tokenSet, by) ==
    IF p.state = "pending"
    THEN [state |-> state, err |-> err, tokenSet |-> tokenSet, by |-> by]
    ELSE p

\* A /git/clone request as the model records it; called: whether
\* cloneWithUserCredentials was invoked, accessToken: the token it was
\* given, authUrl: the authUrl field of the answer
Clone(userId, repositoryUrl, status, called, accessToken, authUrl) ==
    [userId |-> userId, repositoryUrl |-> repositoryUrl, status |-> status,
     called |-> called, accessToken |-> accessToken, authUrl |-> authUrl]

NoClone == Clone(NoVal, NoVal, 0, FALSE, NoVal, NoVal)

\* An /auth/status request as the model records it: the userId asked for,
\* the HTTP status and the fields of the JSON answer
Status(userId, status, authorized, provider, authorizedAt, authUrl) ==
    [userId |-> userId, status |-> status, authorized |-> authorized,
     provider |-> provider, authorizedAt |-> authorizedAt, authUrl |-> authUrl]

NoStatus == Status(NoVal, 0, FALSE, "null", "null", "null")

\* A run of an example script.  has: the credentials and arguments present
\* (after dotenv.config()); next: the check it is about to make; printed:
\* its error output; exit: the exit status, -1 while it runs; calls: the API
\* calls and OAuth flows it started
ScriptRun(name, has, phase, next, printed, exit, calls) ==
    [name |-> name, has |-> has, phase |-> phase, next |-> next,
     printed |-> printed, exit |-> exit, calls |-> calls]

\* No script runs in the process
NoScript == ScriptRun(NoVal, {}, "done", 0, <<>>, -1, <<>>)

\* The service after start-up: both Maps empty
GitInit ==
    /\ userTokens = <<>>
    /\ userSessions = <<>>
    /\ now = 0
    /\ issued = {}
    /\ gitReqs = <<>>
    /\ lastClone = NoClone
    /\ lastStatus = NoStatus

Init ==
    /\ \E o \in Options : opts = [f \in AllFlows |-> IF f = 1 THEN o ELSE NoOptions]
    /\ pc = [f \in AllFlows |-> IF f = 1 THEN "probe1" ELSE "idle"]
    /\ local = [f \in AllFlows |-> NoLocal]
    /\ log = [f \in AllFlows |-> <<>>]
    /\ listener = [f \in AllFlows |-> "none"]
    /\ reqs = [f \in AllFlows |-> <<>>]
    /\ closeCbs = [f \in AllFlows |-> <<>>]
    /\ promise = [f \in AllFlows |-> Pending]
    /\ busyPorts \in SUBSET Ports
    /\ others = [f \in AllFlows |-> 0]
    /\ GitInit
    /\ script = NoScript

\* The async function throws before the listener exists: the outer catch
\* rethrows, the returned promise rejects.
Throw(f, err) ==
    /\ pc' = [pc EXCEPT ![f] = "done"]
    /\ promise' = [promise EXCEPT ![f] = Settle(@, "rejected", err, NoToken, "throw")]

Emit(f, ev) == log' = [log EXCEPT ![f] = Append(@, ev)]

\* ------------------------------------- getAuthorizationServerDiscoveryUrl

\* Faulty variant: the resource parameter of the challenge header is never picked up
Strategy1ResultIgnoresHeader(threw, h) == NoVal

\* After the answer to GET mcpUrl: the value returned, or NoVal to go on.
\* threw: fetch rejected; h: the WWW-Authenticate header of the answer.
Strategy1Result(threw, h) ==
    IF threw \/ h = "null" THEN NoVal ELSE ResourceMatch(h)

\* How the log names the answer to a request awaited on the spot
ProbeAnswer(threw, ok) == IF threw THEN "threw" ELSE IF ok THEN "ok" ELSE "not ok"

\* After the answer to a well-known probe: the value returned, or NoVal.
\* threw: fetch rejected; ok: res.ok.
WellKnownResult(url, threw, ok) ==
    IF ~threw /\ ok THEN url ELSE NoVal

\* getAuthorizationServerDiscoveryUrl returned url to getPkceAccessToken
Discovered(f, url) ==
    /\ local' = [local EXCEPT ![f].discoveryUrl = url]
    /\ pc' = [pc EXCEPT ![f] = "issuer"]
    /\ UNCHANGED promise

\* Strategy 1: GET mcpUrl, look for resource="..." in WWW-Authenticate.
\* With an unparsable mcpUrl fetch rejects and `new URL(mcpUrl)` then throws.
Probe1(f) ==
    /\ pc[f] = "probe1"
    /\ \E threw \in BOOLEAN, h \in WwwAuthHeaders :
          /\ ~UrlValid(opts[f].mcpUrl) => threw
          /\ threw => h = "null"
          /\ Emit(f, Event("probe1", opts[f].mcpUrl, {}, IF threw THEN "threw" ELSE h))
          /\ LET r == Strategy1Result(threw, h) IN
             IF r # NoVal
             THEN Discovered(f, r)
             ELSE IF ~UrlValid(opts[f].mcpUrl)
                  THEN Throw(f, Err("Invalid URL", <<>>)) /\ UNCHANGED local
                  ELSE /\ pc' = [pc EXCEPT ![f] = "probe2"]
                       /\ UNCHANGED <<local, promise>>
    /\ UNCHANGED <<script, others, gitVars, opts, listener, reqs, closeCbs, busyPorts>>

\* Strategy 2: <origin>/.well-known/oauth-authorization-server
Probe2(f) ==
    /\ pc[f] = "probe2"
    /\ \E threw \in BOOLEAN, ok \in BOOLEAN :
          /\ threw => ~ok
          /\ Emit(f, Event("probe2", AuthServerMetadataUrl(opts[f].mcpUrl), {},
                           ProbeAnswer(threw, ok)))
          /\ LET r == WellKnownResult(AuthServerMetadataUrl(opts[f].mcpUrl), threw, ok) IN
             IF r # NoVal
             THEN Discovered(f, r)
             ELSE /\ pc' = [pc EXCEPT ![f] = "probe3"]
                  /\ UNCHANGED <<local, promise>>
    /\ UNCHANGED <<script, others, gitVars, opts, listener, reqs, closeCbs, busyPorts>>

\* Faulty variant: with every probe failed, the OpenID Connect URL is used anyway
DiscoveryExhaustedAssumesOidc(f) ==
    /\ local' = [local EXCEPT ![f].discoveryUrl = OidcDiscoveryUrl(opts[f].mcpUrl)]
    /\ pc' = [pc EXCEPT ![f] = "issuer"]
    /\ UNCHANGED promise

\* What getAuthorizationServerDiscoveryUrl does when the last probe failed
DiscoveryExhausted(f) ==
    /\ Throw(f, Err("Could not find OAuth Authorization Server Metadata or OpenID Connect Discovery endpoint", <<>>))
    /\ UNCHANGED local

\* Strategy 3: <origin>/.well-known/openid-configuration
Probe3(f) ==
    /\ pc[f] = "probe3"
    /\ \E threw \in BOOLEAN, ok \in BOOLEAN :
          /\ threw => ~ok
          /\ Emit(f, Event("probe3", OidcDiscoveryUrl(opts[f].mcpUrl), {},
                           ProbeAnswer(threw, ok)))
          /\ LET r == WellKnownResult(OidcDiscoveryUrl(opts[f].mcpUrl), threw, ok) IN
             IF r # NoVal
             THEN Discovered(f, r)
             ELSE DiscoveryExhausted(f)
    /\ UNCHANGED <<script, others, gitVars, opts, listener, reqs, closeCbs, busyPorts>>

\* ------------------------------------------------------ getPkceAccessToken

\* The endpoints of the issuer metadata document
IssuerMetadata ==
    [token_endpoint |-> "https://as.example/token",
     authorization_endpoint |-> "https://as.example/authorize",
     registration_endpoint |-> "https://as.example/register"]

\* What the flow does when Issuer.discover rejected
IssuerFailed(f) ==
    /\ Throw(f, Err("Issuer.discover failed", <<>>))
    /\ UNCHANGED local

\* Step 2: Issuer.discover(discoveryUrl); it throws on an unreachable or
\* malformed document.
Discover(f) ==
    /\ pc[f] = "issuer"
    /\ \E ok \in BOOLEAN :
          /\ Emit(f, Event("discover", local[f].discoveryUrl, {}, ProbeAnswer(~ok, ok)))
          /\ IF ok
             THEN /\ local' = [local EXCEPT
                        ![f].token_endpoint = IssuerMetadata.token_endpoint,
                        ![f].authorization_endpoint = IssuerMetadata.authorization_endpoint]
                  /\ pc' = [pc EXCEPT ![f] = "register"]
                  /\ UNCHANGED promise
             ELSE IssuerFailed(f)
    /\ UNCHANGED <<script, others, gitVars, opts, listener, reqs, closeCbs, busyPorts>>

\* The client metadata sent to the registration endpoint
RegistrationParams(f) ==
    {<<"client_name", "MCP OAuth Client">>,
     <<"redirect_uris", RedirectUri(f)>>,
     <<"grant_types", "authorization_code">>,
     <<"response_types", "code">>,
     <<"token_endpoint_auth_method", "none">>}

\* Faulty variant: a rejected registration falls back to a pre-registered client
RegistrationFailedUsesStaticClient(f) ==
    /\ local' = [local EXCEPT ![f].client_id = "static-client"]
    /\ pc' = [pc EXCEPT ![f] = "authorize"]
    /\ UNCHANGED promise

\* What the flow does when issuer.Client.register rejected
RegistrationFailed(f) ==
    /\ Throw(f, Err("Client.register failed", <<>>))
    /\ UNCHANGED local

\* Step 3: issuer.Client.register(...)
Register(f) ==
    /\ pc[f] = "register"
    /\ \/ \E id \in ClientIds :
             /\ Emit(f, Event("register", IssuerMetadata.registration_endpoint,
                              RegistrationParams(f), "ok"))
             /\ local' = [local EXCEPT ![f].client_id = id]
             /\ pc' = [pc EXCEPT ![f] = "authorize"]
             /\ UNCHANGED promise
       \/ /\ Emit(f, Event("register", IssuerMetadata.registration_endpoint,
                            RegistrationParams(f), "threw"))
          /\ RegistrationFailed(f)
    /\ UNCHANGED <<script, others, gitVars, opts, listener, reqs, closeCbs, busyPorts>>

\* Faulty variant: the verifier itself is sent as the challenge
AuthorizationParamsSendVerifier(f, v, c) ==
    {<<"client_id", local[f].client_id>>,
     <<"response_type", "code">>,
     <<"scope", DefaultScope>>,
     <<"code_challenge", v>>,
     <<"code_challenge_method", "S256">>,
     <<"redirect_uri", RedirectUri(f)>>}

\* The query of client.authorizationUrl({...}) for PKCE pair (v, c)
AuthorizationParams(f, v, c) ==
    {<<"client_id", local[f].client_id>>,
     <<"response_type", "code">>,
     <<"scope", DefaultScope>>,
     <<"code_challenge", c>>,
     <<"code_challenge_method", "S256">>,
     <<"redirect_uri", RedirectUri(f)>>}

\* Faulty variant: the verifier is generated once per process and kept
CachedVerifiers ==
    IF \E g \in AllFlows : local[g].code_verifier # NoVal
    THEN {local[g].code_verifier : g \in {h \in AllFlows : local[h].code_verifier # NoVal}}
    ELSE Verifiers

\* generators.codeVerifier(): 32 bytes of crypto.randomBytes, base64url; a
\* value the process has not drawn before
GeneratedVerifiers ==
    Verifiers \ {local[g].code_verifier : g \in AllFlows}

\* Steps 4 and 5: the PKCE pair and the authorization URL, which is logged;
\* then open(authorizationUrl) when openBrowser is set, else the listener.
Authorize(f) ==
    /\ pc[f] = "authorize"
    /\ \E v \in GeneratedVerifiers :
          /\ local' = [local EXCEPT ![f].code_verifier = v,
                                    ![f].code_challenge = CodeChallenge(v)]
          /\ Emit(f, Event("authorizationUrl", local[f].authorization_endpoint,
                           AuthorizationParams(f, v, CodeChallenge(v)), "none"))
    /\ pc' = [pc EXCEPT ![f] = IF opts[f].openBrowser THEN "open" ELSE "listen"]
    /\ UNCHANGED <<script, others, gitVars, opts, listener, reqs, closeCbs, promise, busyPorts>>

\* await open(authorizationUrl): the browser is launched, or open rejects
OpenBrowser(f) ==
    /\ pc[f] = "open"
    /\ \E ok \in BOOLEAN :
          /\ Emit(f, Event("open", local[f].authorization_endpoint,
                           AuthorizationParams(f, local[f].code_verifier,
                                               local[f].code_challenge),
                           ProbeAnswer(~ok, ok)))
          /\ IF ok
             THEN pc' = [pc EXCEPT ![f] = "listen"] /\ UNCHANGED promise
             ELSE Throw(f, Err("open failed", <<>>))
    /\ UNCHANGED <<script, others, gitVars, opts, local, listener, reqs, closeCbs, busyPorts>>

\* Faulty variant: a taken port makes the flow listen on the next one
BindFailedTriesNextPort(f) ==
    /\ log' = [log EXCEPT ![f] =
           @ \o <<Event("listen", RedirectUri(f), {<<"port", ToString(Port(f))>>},
                        "EADDRINUSE"),
                  Event("listen", RedirectUri(f), {<<"port", ToString(Port(f) + 1)>>},
                        "ok")>>]
    /\ listener' = [listener EXCEPT ![f] = "listening"]
    /\ UNCHANGED promise

\* The server emits 'error' because the port is taken: server.on('error')
\* rejects the promise; nothing else is tried.
BindFailed(f) ==
    /\ Emit(f, Event("listen", RedirectUri(f), {<<"port", ToString(Port(f))>>},
                     "EADDRINUSE"))
    /\ listener' = [listener EXCEPT ![f] = "failed"]
    /\ promise' = [promise EXCEPT ![f] =
           Settle(@, "rejected",
                  Err("Failed to start callback server: ${err.message}",
                      <<"EADDRINUSE">>),
                  NoToken, "listen")]

\* Step 6: the promise is returned and app.listen(port) binds the port; when
\* the port is taken the server emits 'error' and the promise rejects.
Listen(f) ==
    /\ pc[f] = "listen"
    /\ pc' = [pc EXCEPT ![f] = "waiting"]
    /\ IF Port(f) \in busyPorts \cup HeldPorts
       THEN BindFailed(f)
       ELSE /\ Emit(f, Event("listen", RedirectUri(f), {<<"port", ToString(Port(f))>>},
                             "ok"))
            /\ listener' = [listener EXCEPT ![f] = "listening"]
            /\ UNCHANGED promise
    /\ UNCHANGED <<script, others, gitVars, opts, local, reqs, closeCbs, busyPorts>>

\* ------------------------------------------------- the /callback handler

\* JavaScript truthiness of a query parameter
Truthy(v) == v # NoVal /\ v # ""

\* client.callbackParams(req): the query parameters of the request
CallbackQueries ==
    {q \in [error : {NoVal} \cup ErrorCodes,
            error_description : ErrorDescriptions,
            code : {NoVal} \cup Codes] :
        q.error = NoVal => q.error_description = NoVal}

\* Faulty variant: the handler does not look at params.error
CallbackThrowsWithoutErrorCheck(q) ==
    IF ~Truthy(q.code)
    THEN Err("Authorization code not received", <<>>)
    ELSE NoErr

\* Faulty variant: the handler does not check that a code came back
CallbackThrowsWithoutCodeCheck(q) ==
    IF Truthy(q.error)
    THEN Err("Authorization error: ${params.error} - ${params.error_description}",
             <<q.error, q.error_description>>)
    ELSE NoErr

\* The Error the handler throws before any fetch, or NoErr
CallbackThrows(q) ==
    IF Truthy(q.error)
    THEN Err("Authorization error: ${params.error} - ${params.error_description}",
             <<q.error, q.error_description>>)
    ELSE IF ~Truthy(q.code)
         THEN Err("Authorization code not received", <<>>)
         ELSE NoErr

\* Faulty variant: the token request names the default redirect URI
TokenRequestParamsDefaultRedirect(f, code) ==
    {<<"grant_type", "authorization_code">>,
     <<"code", code>>,
     <<"redirect_uri", DEFAULT_REDIRECT_URI>>,
     <<"client_id", local[f].client_id>>,
     <<"code_verifier", local[f].code_verifier>>}

\* The form body of the token-exchange POST
TokenRequestParams(f, code) ==
    {<<"grant_type", "authorization_code">>,
     <<"code", code>>,
     <<"redirect_uri", RedirectUri(f)>>,
     <<"client_id", local[f].client_id>>,
     <<"code_verifier", local[f].code_verifier>>}

\* Answers of the token endpoint (threw: fetch rejected)
TokenAnswers ==
    {[threw |-> TRUE, status |-> 0, body |-> NoVal]}
    \cup {[threw |-> FALSE, status |-> 200, body |-> b] : b \in OkBodies}
    \cup {[threw |-> FALSE, status |-> st, body |-> b] : st \in ErrorStatuses, b \in ErrorBodies}

\* The answer field of a request whose handler has (so far) none
NoAnswer == [threw |-> FALSE, status |-> 0, body |-> NoVal]

\* A callback passed to server.close: () => resolve(tokenSet) or () => reject(err)
Resolver(tokenSet) == [type |-> "resolve", err |-> NoErr, tokenSet |-> tokenSet]

Rejecter(err) == [type |-> "reject", err |-> err, tokenSet |-> NoToken]

NoCallback == [type |-> "none", err |-> NoErr, tokenSet |-> NoToken]

\* What the handler passes to server.close after the token endpoint answered a
TokenExchangeOutcome(a) ==
    IF a.threw
    THEN Rejecter(Err("fetch failed", <<>>))
    ELSE IF ~ResponseOk(a.status)
         THEN Rejecter(Err("Token exchange failed: ${status} ${statusText} - ${errorText}",
                           <<ToString(a.status), StatusText(a.status), a.body>>))
         ELSE IF JsonValid(a.body)
              THEN Resolver(ParseJson(a.body))
              ELSE Rejecter(Err("invalid json response body", <<>>))

\* Faulty variant: the http.Server is one object shared by every flow
ServerCloseShared(f, cb) ==
    /\ listener' = [g \in AllFlows |->
                        IF listener[g] = "listening" THEN "closing" ELSE listener[g]]
    /\ closeCbs' = [closeCbs EXCEPT ![f] = Append(@, cb)]
    /\ UNCHANGED promise

\* Faulty variant: the handler settles the promise itself instead of leaving it to
\* the callback of server.close
ServerCloseSettlesAtOnce(f, cb) ==
    /\ listener' = [listener EXCEPT ![f] = IF @ = "listening" THEN "closing" ELSE @]
    /\ promise' = [promise EXCEPT ![f] =
           Settle(@, IF cb.type = "resolve" THEN "resolved" ELSE "rejected",
                  cb.err, cb.tokenSet, "handler")]
    /\ UNCHANGED closeCbs

\* server.close(cb): the server stops listening at once (the port is
\* released); cb runs on the 'close' event, once every connection has ended.
ServerClose(f, cb) ==
    /\ listener' = [listener EXCEPT ![f] = IF @ = "listening" THEN "closing" ELSE @]
    /\ closeCbs' = [closeCbs EXCEPT ![f] = Append(@, cb)]
    /\ UNCHANGED promise

\* Whether the server of flow f delivers a further request to the handler
Accepts(f) == listener[f] = "listening"

\* The number of /callback requests delivered so far
TotalRequests ==
    Cardinality({x \in AllFlows \X (1..(MaxRequests + 1)) : x[2] \in DOMAIN reqs[x[1]]})

\* GET /callback arrives: the handler runs up to its first await.  With an
\* error or without a code it throws, answers 500 and closes the server;
\* otherwise it sends the token-exchange POST and waits for the answer.
HandleCallback(f) ==
    /\ pc[f] = "waiting"
    /\ Accepts(f)
    /\ TotalRequests < MaxRequests
    /\ \E q \in CallbackQueries :
          LET e == CallbackThrows(q) IN
          IF e # NoErr
          THEN /\ reqs' = [reqs EXCEPT ![f] =
                      Append(@, [params |-> q, pc |-> "done", answer |-> NoAnswer,
                                 cb |-> Rejecter(e)])]
               /\ ServerClose(f, Rejecter(e))
               /\ UNCHANGED log
          ELSE /\ reqs' = [reqs EXCEPT ![f] =
                      Append(@, [params |-> q, pc |-> "fetch", answer |-> NoAnswer,
                                 cb |-> NoCallback])]
               /\ Emit(f, Event("token", local[f].token_endpoint,
                                TokenRequestParams(f, q.code), "pending"))
               /\ UNCHANGED <<listener, closeCbs, promise>>
    /\ UNCHANGED <<script, others, gitVars, opts, pc, local, busyPorts>>

\* The token endpoint answers request i: the handler reads the body, sends
\* the success or failure page and closes the server.
TokenResponse(f, i) ==
    /\ i \in DOMAIN reqs[f]
    /\ reqs[f][i].pc = "fetch"
    /\ \E a \in TokenAnswers :
          /\ reqs' = [reqs EXCEPT ![f][i] =
                 [@ EXCEPT !.pc = "done", !.answer = a, !.cb = TokenExchangeOutcome(a)]]
          /\ ServerClose(f, TokenExchangeOutcome(a))
    /\ UNCHANGED <<script, others, gitVars, opts, pc, local, log, busyPorts>>

\* The callbacks of one 'close' event, run in the order they were registered
RECURSIVE RunCallbacks(_, _)
RunCallbacks(p, cbs) ==
    IF cbs = <<>>
    THEN p
    ELSE RunCallbacks(
             Settle(p, IF Head(cbs).type = "resolve" THEN "resolved" ELSE "rejected",
                    Head(cbs).err, Head(cbs).tokenSet, "handler"),
             Tail(cbs))

\* The server emits 'close': it no longer listens and every connection has
\* ended, that is, every delivered request has been answered.
ServerClosed(f) ==
    /\ listener[f] = "closing"
    /\ \A i \in DOMAIN reqs[f] : reqs[f][i].pc = "done"
    /\ listener' = [listener EXCEPT ![f] = "closed"]
    /\ promise' = [promise EXCEPT ![f] = RunCallbacks(@, closeCbs[f])]
    /\ closeCbs' = [closeCbs EXCEPT ![f] = <<>>]
    /\ UNCHANGED <<script, others, gitVars, opts, pc, local, log, reqs, busyPorts>>

\* ---------------------------------------------------------- specification

\* Faulty variant: a request on any other path ends the wait
OtherRequestEndsWait(f) ==
    /\ pc[f] = "waiting"
    /\ Accepts(f)
    /\ others[f] < MaxOthers
    /\ others' = [others EXCEPT ![f] = @ + 1]
    /\ ServerClose(f, Rejecter(Err("Not found", <<>>)))
    /\ UNCHANGED <<script, gitVars, opts, pc, local, log, reqs, busyPorts>>

\* A request on a path other than /callback arrives: the app has no route
\* for it, express answers 404 and the flow's state stays as it is.
OtherRequest(f) ==
    /\ pc[f] = "waiting"
    /\ Accepts(f)
    /\ others[f] < MaxOthers
    /\ others' = [others EXCEPT ![f] = @ + 1]
    /\ UNCHANGED <<script, gitVars, opts, pc, local, log, listener, reqs, closeCbs, promise,
                   busyPorts>>

Next ==
    \/ \E f \in AllFlows : Probe1(f)
    \/ \E f \in AllFlows : Probe2(f)
    \/ \E f \in AllFlows : Probe3(f)
    \/ \E f \in AllFlows : Discover(f)
    \/ \E f \in AllFlows : Register(f)
    \/ \E f \in AllFlows : Authorize(f)
    \/ \E f \in AllFlows : OpenBrowser(f)
    \/ \E f \in AllFlows : Listen(f)
    \/ \E f \in AllFlows : HandleCallback(f)
    \/ \E f \in AllFlows, i \in 1..MaxRequests : TokenResponse(f, i)
    \/ \E f \in AllFlows : ServerClosed(f)

Spec == Init /\ [][Next]_vars

\* One invocation with the default redirect URI whose listener also
\* receives requests on other paths.
InitWait ==
    /\ \E b \in BOOLEAN :
          opts = [f \in AllFlows |->
                     IF f = 1 THEN [NoOptions EXCEPT !.openBrowser = b] ELSE NoOptions]
    /\ pc = [f \in AllFlows |-> IF f = 1 THEN "probe1" ELSE "idle"]
    /\ local = [f \in AllFlows |-> NoLocal]
    /\ log = [f \in AllFlows |-> <<>>]
    /\ listener = [f \in AllFlows |-> "none"]
    /\ reqs = [f \in AllFlows |-> <<>>]
    /\ closeCbs = [f \in AllFlows |-> <<>>]
    /\ promise = [f \in AllFlows |-> Pending]
    /\ busyPorts \in SUBSET Ports
    /\ others = [f \in AllFlows |-> 0]
    /\ GitInit
    /\ script = NoScript

NextWait ==
    \/ Next
    \/ \E f \in AllFlows : OtherRequest(f)

SpecWait == InitWait /\ [][NextWait]_vars

\* What flow f has sent once discovery (by the resource metadata of the
\* challenge header), Issuer.discover and Client.register have succeeded
SetupLog(f) ==
    <<Event("probe1", opts[f].mcpUrl, {}, "Bearer resource=https://rs.example/meta"),
      Event("discover", "https://rs.example/meta", {}, "ok"),
      Event("register", IssuerMetadata.registration_endpoint, RegistrationParams(f),
            "ok")>>

\* Its locals at that point
SetupLocal(f) ==
    [NoLocal EXCEPT !.discoveryUrl = "https://rs.example/meta",
                    !.token_endpoint = IssuerMetadata.token_endpoint,
                    !.authorization_endpoint = IssuerMetadata.authorization_endpoint,
                    !.client_id = ClientIdOf[f]]

\* Two invocations in one process, both registered and about to generate
\* their PKCE pair; the second on the same redirect URI or on one of its own.
InitTwo ==
    /\ \E r \in RedirectUriOptions :
          opts = [f \in AllFlows |->
                     IF f = 1 THEN NoOptions ELSE [NoOptions EXCEPT !.redirectUri = r]]
    /\ pc = [f \in AllFlows |-> "authorize"]
    /\ local = [f \in AllFlows |-> SetupLocal(f)]
    /\ log = [f \in AllFlows |-> SetupLog(f)]
    /\ listener = [f \in AllFlows |-> "none"]
    /\ reqs = [f \in AllFlows |-> <<>>]
    /\ closeCbs = [f \in AllFlows |-> <<>>]
    /\ promise = [f \in AllFlows |-> Pending]
    /\ busyPorts = {}
    /\ others = [f \in AllFlows |-> 0]
    /\ GitInit
    /\ script = NoScript

NextTwo ==
    \/ \E f \in AllFlows : Authorize(f)
    \/ \E f \in AllFlows : Listen(f)
    \/ \E f \in AllFlows : HandleCallback(f)
    \/ \E f \in AllFlows, i \in 1..MaxRequests : TokenResponse(f, i)
    \/ \E f \in AllFlows : ServerClosed(f)

SpecTwo == InitTwo /\ [][NextTwo]_vars

\* The steps of one invocation up to the bind of its listener, over every
\* shape of options.redirectUri and options.port.
InitOptions ==
    /\ \E o \in AllOptions : opts = [f \in AllFlows |-> IF f = 1 THEN o ELSE NoOptions]
    /\ pc = [f \in AllFlows |-> IF f = 1 THEN "probe1" ELSE "idle"]
    /\ local = [f \in AllFlows |-> NoLocal]
    /\ log = [f \in AllFlows |-> <<>>]
    /\ listener = [f \in AllFlows |-> "none"]
    /\ reqs = [f \in AllFlows |-> <<>>]
    /\ closeCbs = [f \in AllFlows |-> <<>>]
    /\ promise = [f \in AllFlows |-> Pending]
    /\ busyPorts \in SUBSET Ports
    /\ others = [f \in AllFlows |-> 0]
    /\ GitInit
    /\ script = NoScript

NextOptions ==
    \/ \E f \in AllFlows : Probe1(f)
    \/ \E f \in AllFlows : Probe2(f)
    \/ \E f \in AllFlows : Probe3(f)
    \/ \E f \in AllFlows : Discover(f)
    \/ \E f \in AllFlows : Register(f)
    \/ \E f \in AllFlows : Authorize(f)
    \/ \E f \in AllFlows : OpenBrowser(f)
    \/ \E f \in AllFlows : Listen(f)

SpecOptions == InitOptions /\ [][NextOptions]_vars

\* ===================================================== OAuth Git service
\* (git-oauth/client.js: GitOAuthService and its express routes)

\* req.query.userId / req.body.userId as the caller sends it
UserIds == {"alice", "bob"}

\* Values of the state parameter that generateSecureState never returned
ForgedStates == {"alice_0_0"}

\* Authorization codes in the redirect from GitHub
GhCodes == {"gh-code-1"}

\* Access tokens GitHub hands out
GhTokens == {"gho_a", "gho_b"}

RepositoryUrls == {"https://github.com/o/r"}

pkceVars ==
    <<opts, pc, local, log, listener, reqs, closeCbs, promise, busyPorts, others>>

\* Map.prototype.has / get / set / delete on a Map held as a function
MapHas(m, k) == k \in DOMAIN m

MapGet(m, k) == m[k]

MapSet(m, k, v) == [x \in DOMAIN m \cup {k} |-> IF x = k THEN v ELSE m[x]]

MapDelete(m, k) == [x \in DOMAIN m \ {k} |-> m[x]]

\* `${userId}_${Date.now()}_${Math.random().toString(36).substr(2, 9)}`;
\* n stands for the random part
StateString(userId, t, n) == userId \o "_" \o ToString(t) \o "_" \o ToString(n)

\* Faulty variant: sessions never expire
ExpiredNever(timestamp, t) == FALSE

\* Whether a session of the given timestamp has expired at time t
\* (Date.now() - session.timestamp > 5 * 60 * 1000)
Expired(timestamp, t) == t - timestamp > 5 * 60 * 1000

\* Faulty variant: a state the Map does not hold is taken as the caller's own
validateStateTrusting(state) ==
    IF ~MapHas(userSessions, state)
    THEN "alice"
    ELSE MapGet(userSessions, state).userId

\* validateState(state): the userId bound to the state, or NoVal for null
validateState(state) ==
    IF ~MapHas(userSessions, state)
    THEN NoVal
    ELSE IF Expired(MapGet(userSessions, state).timestamp, now)
         THEN NoVal
         ELSE MapGet(userSessions, state).userId

\* Faulty variant: validateState leaves the state in the Map
SessionsAfterValidateKept(state) == userSessions

\* userSessions once validateState(state) has run: a state found is deleted
SessionsAfterValidate(state) ==
    IF MapHas(userSessions, state) THEN MapDelete(userSessions, state) ELSE userSessions

\* A request to /auth/callback as the model records it
GitReq(code, state, reqPc, userId, status, error, token) ==
    [code |-> code, state |-> state, pc |-> reqPc, userId |-> userId,
     status |-> status, error |-> error, token |-> token]

\* GET /auth/github?userId=...: generateAuthUrl -> generateSecureState
AuthGithub(u) ==
    /\ Cardinality(issued) < MaxCallbacks
    /\    LET userId == IF Truthy(u) THEN u ELSE "anonymous"
              state == StateString(userId, now, Cardinality(issued) + 1)
          IN /\ userSessions' =
                    MapSet(userSessions, state, [userId |-> userId, timestamp |-> now])
             /\ issued' = issued \cup {[state |-> state, userId |-> userId]}
    /\ UNCHANGED <<userTokens, now, gitReqs, lastClone, lastStatus, pkceVars, script>>

\* The states generateSecureState has returned so far
IssuedStates == {x.state : x \in issued}

\* The values a caller can put into the state parameter of /auth/callback
PresentableStates == {NoVal} \cup ForgedStates \cup {x.state : x \in issued}

\* Faulty variant: only the state parameter is required
MissingParamsStateOnly(code, state) == ~Truthy(state)

\* if (!code || !state): the first check of the /auth/callback handler
MissingParams(code, state) == ~Truthy(code) \/ ~Truthy(state)

\* GET /auth/callback?code=...&state=...: the handler up to its first await
GitCallback(code, state) ==
    /\ Len(gitReqs) < MaxCallbacks
    /\    IF MissingParams(code, state)
          THEN /\ gitReqs' = Append(gitReqs,
                      GitReq(code, state, "done", NoVal, 400,
                             "Missing code or state parameter", NoVal))
               /\ UNCHANGED userSessions
          ELSE /\ userSessions' = SessionsAfterValidate(state)
               /\ IF ~Truthy(validateState(state))
                  THEN gitReqs' = Append(gitReqs,
                           GitReq(code, state, "done", NoVal, 400,
                                  "Invalid or expired state", NoVal))
                  ELSE gitReqs' = Append(gitReqs,
                           GitReq(code, state, "exchange", validateState(state), 0,
                                  NoVal, NoVal))
    /\ UNCHANGED <<userTokens, now, issued, lastClone, lastStatus, pkceVars, script>>

\* Faulty variant: the token is stored under a key shared by every user
configureGitCredentialsShared(userId, accessToken) ==
    MapSet(userTokens, "alice",
           [token |-> accessToken, timestamp |-> now, provider |-> "github"])

\* configureGitCredentials(userId, accessToken): userTokens afterwards
configureGitCredentials(userId, accessToken) ==
    MapSet(userTokens, userId,
           [token |-> accessToken, timestamp |-> now, provider |-> "github"])

\* GitHub answers the access_token POST of request i.  An answer with
\* data.error makes exchangeCodeForToken throw (500), as does a rejected fetch.
\* Otherwise the token is stored and the user-info request is sent.
GitExchangeAnswer(i) ==
    /\ i \in DOMAIN gitReqs
    /\ gitReqs[i].pc = "exchange"
    /\ \/ /\ gitReqs' = [gitReqs EXCEPT ![i] =
                    [@ EXCEPT !.pc = "done", !.status = 500,
                              !.error = "OAuth error: ${data.error_description}"]]
          /\ UNCHANGED userTokens
       \/ \E t \in GhTokens :
             /\ userTokens' = configureGitCredentials(gitReqs[i].userId, t)
             /\ gitReqs' = [gitReqs EXCEPT ![i] = [@ EXCEPT !.pc = "userinfo", !.token = t]]
    /\ UNCHANGED <<userSessions, now, issued, lastClone, lastStatus, pkceVars, script>>

\* GitHub answers GET /user of request i: with !response.ok getUserInfo
\* throws (500); else the handler answers success.
GitUserInfoAnswer(i) ==
    /\ i \in DOMAIN gitReqs
    /\ gitReqs[i].pc = "userinfo"
    /\ \E ok \in BOOLEAN :
          gitReqs' = [gitReqs EXCEPT ![i] =
              IF ok
              THEN [@ EXCEPT !.pc = "done", !.status = 200]
              ELSE [@ EXCEPT !.pc = "done", !.status = 500,
                             !.error = "Failed to fetch user info"]]
    /\ UNCHANGED <<userTokens, userSessions, now, issued, lastClone, lastStatus, pkceVars, script>>

\* tokenData.token of userTokens.get(userId)
CloneToken(userId) == MapGet(userTokens, userId).token

\* !!tokenData for tokenData = userTokens.get(userId)
HasToken(userId) == MapHas(userTokens, userId)

\* `${SERVICE_URL}/auth/github?userId=${userId}`
AuthUrlFor(userId) == "/auth/github?userId=" \o userId

\* Faulty variant: the body of /git/clone is not looked at
MissingCloneParamsNever(u, url) == FALSE

\* !userId || !repositoryUrl
MissingCloneParams(u, url) == ~Truthy(u) \/ ~Truthy(url)

\* POST /git/clone {userId, repositoryUrl}: 400 without one of them, 401
\* without a stored token, else cloneWithUserCredentials with the stored
\* token (200, or 500 when it throws: cloned is FALSE).
GitClone(u, url, cloned) ==
    /\    IF MissingCloneParams(u, url)
          THEN lastClone' = Clone(u, url, 400, FALSE, NoVal, NoVal)
          ELSE IF ~HasToken(u)
               THEN lastClone' = Clone(u, url, 401, FALSE, NoVal, AuthUrlFor(u))
               ELSE lastClone' = Clone(u, url, IF cloned THEN 200 ELSE 500, TRUE,
                                       CloneToken(u), NoVal)
    /\ UNCHANGED <<userTokens, userSessions, now, issued, gitReqs, lastStatus, pkceVars, script>>

\* Faulty variant: the status never reports an authorization
AuthorizedNever(userId) == FALSE

\* !!tokenData for tokenData = userTokens.get(userId) in /auth/status
Authorized(userId) == MapHas(userTokens, userId)

\* GET /auth/status?userId=...: 400 without userId, else the fields read
\* from userTokens.get(userId)
GitStatus(u) ==
    /\ IF ~Truthy(u)
       THEN lastStatus' = Status(u, 400, FALSE, "null", "null", "null")
       ELSE IF Authorized(u)
            THEN lastStatus' = Status(u, 200, TRUE, MapGet(userTokens, u).provider,
                                      ToString(MapGet(userTokens, u).timestamp), "null")
            ELSE lastStatus' = Status(u, 200, FALSE, "null", "null", AuthUrlFor(u))
    /\ UNCHANGED <<userTokens, userSessions, now, issued, gitReqs, lastClone, pkceVars, script>>

\* The service after start-up; no PKCE flow runs in this process
InitGit ==
    /\ opts = [f \in AllFlows |-> NoOptions]
    /\ pc = [f \in AllFlows |-> "idle"]
    /\ local = [f \in AllFlows |-> NoLocal]
    /\ log = [f \in AllFlows |-> <<>>]
    /\ listener = [f \in AllFlows |-> "none"]
    /\ reqs = [f \in AllFlows |-> <<>>]
    /\ closeCbs = [f \in AllFlows |-> <<>>]
    /\ promise = [f \in AllFlows |-> Pending]
    /\ busyPorts = {}
    /\ others = [f \in AllFlows |-> 0]
    /\ GitInit
    /\ script = NoScript

NextGit ==
    \/ \E u \in UserIds : AuthGithub(u)
    \/ \E code \in GhCodes \cup {NoVal}, state \in PresentableStates :
          GitCallback(code, state)
    \/ \E i \in 1..MaxCallbacks : GitExchangeAnswer(i)
    \/ \E i \in 1..MaxCallbacks : GitUserInfoAnswer(i)
    \/ \E u \in UserIds, url \in RepositoryUrls : GitClone(u, url, TRUE)

SpecGit == InitGit /\ [][NextGit]_vars

\* 150 seconds pass
Tick ==
    /\ now < MaxTicks * 150000
    /\ now' = now + 150000
    /\ UNCHANGED <<userTokens, userSessions, issued, gitReqs, lastClone, lastStatus,
                   pkceVars, script>>

\* The service with one user whose redirect from GitHub comes back sooner
\* or later.
NextGitClock ==
    \/ AuthGithub("alice")
    \/ \E code \in GhCodes, state \in IssuedStates : GitCallback(code, state)
    \/ \E i \in 1..MaxCallbacks : GitExchangeAnswer(i)
    \/ \E i \in 1..MaxCallbacks : GitUserInfoAnswer(i)
    \/ Tick

SpecGitClock == InitGit /\ [][NextGitClock]_vars

\* The service with callers that complete flows and send clone requests
\* with and without userId and repositoryUrl.
NextGitClone ==
    \/ \E u \in UserIds : AuthGithub(u)
    \/ \E code \in GhCodes, state \in IssuedStates : GitCallback(code, state)
    \/ \E i \in 1..MaxCallbacks : GitExchangeAnswer(i)
    \/ \E i \in 1..MaxCallbacks : GitUserInfoAnswer(i)
    \/ \E u \in UserIds \cup {NoVal}, url \in RepositoryUrls \cup {NoVal},
            cloned \in BOOLEAN : GitClone(u, url, cloned)

SpecGitClone == InitGit /\ [][NextGitClone]_vars

\* The service with callers that start flows with and without userId,
\* complete them and ask for the authorization status.
NextGitStatus ==
    \/ \E u \in UserIds \cup {NoVal} : AuthGithub(u)
    \/ \E code \in GhCodes, state \in IssuedStates : GitCallback(code, state)
    \/ \E i \in 1..MaxCallbacks : GitExchangeAnswer(i)
    \/ \E i \in 1..MaxCallbacks : GitUserInfoAnswer(i)
    \/ \E u \in UserIds \cup {NoVal} : GitStatus(u)

SpecGitStatus == InitGit /\ [][NextGitStatus]_vars

\* ======================================================== example scripts
\* (example-simple.js, example-jira-mcp.js, example-git-mcp.js,
\* example-official-jira-mcp-with-pkce-token.js, example-get-token.js)

Scripts ==
    {"example-simple.js", "example-jira-mcp.js", "example-git-mcp.js",
     "example-official-jira-mcp-with-pkce-token.js", "example-get-token.js"}

\* What a script can be given: environment variables and process.argv[2]
Requirements ==
    {"ANTHROPIC_API_KEY", "MCP_JIRA_ENDPOINT", "MCP_GIT_ENDPOINT", "argv[2]"}

\* Faulty variant: every script checks the API key only
ChecksApiKeyOnly(name) == <<"ANTHROPIC_API_KEY">>

\* The checks a script makes before anything else, in order
Checks(name) ==
    CASE name = "example-simple.js" -> <<"ANTHROPIC_API_KEY">>
      [] name = "example-jira-mcp.js" -> <<"ANTHROPIC_API_KEY", "MCP_JIRA_ENDPOINT">>
      [] name = "example-git-mcp.js" -> <<"ANTHROPIC_API_KEY", "MCP_GIT_ENDPOINT">>
      [] name = "example-official-jira-mcp-with-pkce-token.js" -> <<"ANTHROPIC_API_KEY">>
      [] name = "example-get-token.js" -> <<"argv[2]">>
      [] OTHER -> <<>>

\* The first line the script prints when the check of r fails
Remediation(r) ==
    IF r = "argv[2]"
    THEN "Please provide the MCP endpoint URL"
    ELSE "Error: " \o r \o " not found in environment variables."

\* What the script does first once its checks have passed
FirstCall(name) ==
    CASE name = "example-simple.js" -> "anthropic.messages.create"
      [] name = "example-jira-mcp.js" -> "anthropic.beta.messages.create"
      [] name = "example-git-mcp.js" -> "anthropic.beta.messages.create"
      [] name = "example-official-jira-mcp-with-pkce-token.js" -> "getPkceAccessToken"
      [] name = "example-get-token.js" -> "getPkceAccessToken"
      [] OTHER -> NoVal

\* The exit status when that call fails: the scripts with a catch block
\* that calls process.exit(1), and those that only log the error
FailureExit(name) ==
    IF name \in {"example-official-jira-mcp-with-pkce-token.js", "example-get-token.js"}
    THEN 1
    ELSE 0

\* `if (!process.env.X) { console.error(...); process.exit(1); }`
ScriptCheck ==
    /\ script.phase = "checks"
    /\ LET r == Checks(script.name)[script.next] IN
       IF r \notin script.has
       THEN script' = [script EXCEPT !.printed = Append(@, Remediation(r)),
                                     !.exit = 1, !.phase = "done"]
       ELSE script' = [script EXCEPT
                          !.next = @ + 1,
                          !.phase = IF script.next = Len(Checks(script.name))
                                    THEN "run" ELSE "checks"]
    /\ UNCHANGED <<pkceVars, gitVars>>

\* The script's first API call or OAuth flow
ScriptCall ==
    /\ script.phase = "run"
    /\ script' = [script EXCEPT !.calls = Append(@, FirstCall(script.name)),
                                !.phase = "called"]
    /\ UNCHANGED <<pkceVars, gitVars>>

\* The call returns or throws and the script ends
ScriptEnd ==
    /\ script.phase = "called"
    /\ \E ok \in BOOLEAN :
          script' = [script EXCEPT !.exit = IF ok THEN 0 ELSE FailureExit(script.name),
                                   !.phase = "done"]
    /\ UNCHANGED <<pkceVars, gitVars>>

\* One script started in an environment that has any of the requirements
InitScript ==
    /\ opts = [f \in AllFlows |-> NoOptions]
    /\ pc = [f \in AllFlows |-> "idle"]
    /\ local = [f \in AllFlows |-> NoLocal]
    /\ log = [f \in AllFlows |-> <<>>]
    /\ listener = [f \in AllFlows |-> "none"]
    /\ reqs = [f \in AllFlows |-> <<>>]
    /\ closeCbs = [f \in AllFlows |-> <<>>]
    /\ promise = [f \in AllFlows |-> Pending]
    /\ busyPorts = {}
    /\ others = [f \in AllFlows |-> 0]
    /\ GitInit
    /\ \E name \in Scripts, has \in SUBSET Requirements :
          script = ScriptRun(name, has, "checks", 1, <<>>, -1, <<>>)

NextScript ==
    \/ ScriptCheck
    \/ ScriptCall
    \/ ScriptEnd

SpecScript == InitScript /\ [][NextScript]_vars

\* ------------------------------------------------------------------ claims

\* The events of the given kinds in the log of flow f, in order
EventsOf(f, kinds) == SelectSeq(log[f], LAMBDA e : e.kind \in kinds)

ProbeKinds == {"probe1", "probe2", "probe3"}

\* Whether the answer recorded with a discovery probe makes its strategy succeed
ProbeHit(e) ==
    IF e.kind = "probe1"
    THEN e.answer = "Bearer resource=https://rs.example/meta"
    ELSE e.answer = "ok"

\* The discovery URL a successful probe stands for
ProbeUrl(f, e) ==
    CASE e.kind = "probe1" -> "https://rs.example/meta"
      [] e.kind = "probe2" -> "https://mcp.example/.well-known/oauth-authorization-server"
      [] OTHER -> "https://mcp.example/.well-known/openid-configuration"

\* C1: the discovery probes are issued in the fixed order WWW-Authenticate
\* resource, oauth-authorization-server, openid-configuration; a probe is
\* issued only after every earlier one failed; the URL returned is that of
\* the first strategy that succeeded, and no probe follows a success.
C1_DiscoveryOrder ==
    \A f \in AllFlows :
        LET P == EventsOf(f, ProbeKinds) IN
        /\ Len(P) <= 3
        /\ \A k \in DOMAIN P :
              /\ P[k].kind = <<"probe1", "probe2", "probe3">>[k]
              /\ k < Len(P) => ~ProbeHit(P[k])
        /\ Len(P) >= 1 => P[1].url = opts[f].mcpUrl
        /\ Len(P) >= 2 => P[2].url = "https://mcp.example/.well-known/oauth-authorization-server"
        /\ Len(P) >= 3 => P[3].url = "https://mcp.example/.well-known/openid-configuration"
        /\ (P # <<>> /\ ProbeHit(P[Len(P)]))
              => /\ local[f].discoveryUrl = ProbeUrl(f, P[Len(P)])
                 /\ pc[f] \notin {"probe1", "probe2", "probe3"}
        /\ local[f].discoveryUrl # NoVal => (P # <<>> /\ ProbeHit(P[Len(P)]))

\* C1 witness: strategy 1 failed, strategy 2 succeeded, its URL is in use
\* and the flow has moved on without probing strategy 3.
C1_Witness ==
    \E f \in AllFlows :
        LET P == EventsOf(f, ProbeKinds) IN
        /\ Len(P) = 2
        /\ ~ProbeHit(P[1]) /\ ProbeHit(P[2])
        /\ local[f].discoveryUrl = "https://mcp.example/.well-known/oauth-authorization-server"
        /\ pc[f] = "waiting"

\* Whether event e carries a PKCE verifier anywhere
CarriesVerifier(e) == e.url \in Verifiers \/ \E p \in e.params : p[2] \in Verifiers

\* C2: the code_verifier appears in no discovery, metadata or registration
\* request and not in the authorization URL, which carries the challenge
\* derived from it; the token-exchange POST body is the only message with
\* the verifier, as its code_verifier parameter.
C2_VerifierOnlyInTokenRequest ==
    \A f \in AllFlows : \A i \in DOMAIN log[f] :
        LET e == log[f][i] IN
        /\ CarriesVerifier(e) => e.kind = "token"
        /\ e.kind \in {"authorizationUrl", "open"} =>
              /\ <<"code_challenge", CodeChallenge(local[f].code_verifier)>> \in e.params
              /\ \A p \in e.params : p[1] = "code_challenge" => p[2] \notin Verifiers
        /\ e.kind = "token" =>
              /\ <<"code_verifier", local[f].code_verifier>> \in e.params
              /\ \A p \in e.params : p[2] \in Verifiers => p[1] = "code_verifier"

\* C2 witness: a flow has exposed its authorization URL, opened the browser
\* and sent a token-exchange POST with the verifier.
C2_Witness ==
    \E f \in AllFlows :
        /\ EventsOf(f, {"authorizationUrl"}) # <<>>
        /\ EventsOf(f, {"open"}) # <<>>
        /\ \E i \in DOMAIN log[f] :
              log[f][i].kind = "token" /\ CarriesVerifier(log[f][i])

\* C3: once a callback request has been handled, the promise is settled only
\* after the listener has closed: in no state is the promise resolved or
\* rejected by the callback handler while the server is listening or still
\* closing.
C3_ClosedBeforeSettled ==
    \A f \in AllFlows :
        (promise[f].state # "pending" /\ (reqs[f] # <<>> \/ promise[f].by = "handler"))
            => /\ listener[f] = "closed"
               /\ promise[f].by = "handler"

\* C3 witness: a promise resolved by the handler, and the listener closed
C3_Witness ==
    \E f \in AllFlows :
        /\ promise[f].state = "resolved"
        /\ promise[f].by = "handler"
        /\ listener[f] = "closed"

\* Requests of flow f, among its first n, for which the handler sent a
\* token-exchange POST: those with a code and without an error
ExchangingRequests(f, n) ==
    {j \in 1..n : /\ j \in DOMAIN reqs[f]
                  /\ ~Truthy(reqs[f][j].params.error)
                  /\ Truthy(reqs[f][j].params.code)}

\* C4 (as claimed): within one invocation exactly one /callback request is
\* handled: no second request is processed, no second token-exchange POST
\* is sent, server.close is not called a second time.
C4_AtMostOneCallbackHandled ==
    \A f \in AllFlows :
        /\ Len(reqs[f]) <= 1
        /\ Len(EventsOf(f, {"token"})) <= 1
        /\ Len(closeCbs[f]) <= 1

\* C5: a callback request with an error parameter makes its handler reject
\* with "Authorization error: <error> - <error_description>"; that handler
\* sends no token-exchange POST and none is sent after it (the POSTs in the
\* log are those of earlier requests that carried a code); the server stops
\* listening at once, so the port is free again and no further request is
\* handled; the promise, once settled, is rejected with that error and the
\* listener is closed.
C5_ErrorCallbackRejects ==
    \A f \in AllFlows : \A i \in DOMAIN reqs[f] :
        LET r == reqs[f][i]
            e == [msg |-> "Authorization error: ${params.error} - ${params.error_description}",
                  args |-> <<r.params.error, r.params.error_description>>]
        IN Truthy(r.params.error) =>
              /\ r.pc = "done" /\ r.answer = NoAnswer
              /\ r.cb = [type |-> "reject", err |-> e, tokenSet |-> NoToken]
              /\ i = Len(reqs[f])
              /\ Len(EventsOf(f, {"token"})) = Cardinality(ExchangingRequests(f, i - 1))
              /\ listener[f] \in {"closing", "closed"}
              /\ promise[f].state # "pending" =>
                    /\ promise[f].state = "rejected"
                    /\ promise[f].err = e
                    /\ listener[f] = "closed"

\* C5 witness: error=access_denied with a description was received, the flow
\* rejected with it, the listener is closed and no POST was sent.
C5_Witness ==
    \E f \in AllFlows :
        /\ Len(reqs[f]) = 1
        /\ reqs[f][1].params.error = "access_denied"
        /\ reqs[f][1].params.error_description = "user denied"
        /\ promise[f].state = "rejected"
        /\ promise[f].err.args = <<"access_denied", "user denied">>
        /\ listener[f] = "closed"
        /\ EventsOf(f, {"token"}) = <<>>

\* C6: a callback request with neither error nor code makes its handler
\* reject with "Authorization code not received"; that handler sends no
\* token-exchange POST and none is sent after it; the teardown is that of
\* the error path: the server stops listening at once, no further request is
\* handled and the promise, once settled, is rejected with that error and
\* the listener is closed.
C6_MissingCodeRejects ==
    \A f \in AllFlows : \A i \in DOMAIN reqs[f] :
        LET r == reqs[f][i]
            e == [msg |-> "Authorization code not received", args |-> <<>>]
        IN (~Truthy(r.params.error) /\ ~Truthy(r.params.code)) =>
              /\ r.pc = "done" /\ r.answer = NoAnswer
              /\ r.cb = [type |-> "reject", err |-> e, tokenSet |-> NoToken]
              /\ i = Len(reqs[f])
              /\ Len(EventsOf(f, {"token"})) = Cardinality(ExchangingRequests(f, i - 1))
              /\ listener[f] \in {"closing", "closed"}
              /\ promise[f].state # "pending" =>
                    /\ promise[f].state = "rejected"
                    /\ promise[f].err = e
                    /\ listener[f] = "closed"

\* C6 witness: a request without error and without code was received and the
\* flow rejected with "Authorization code not received"; no POST was sent.
C6_Witness ==
    \E f \in AllFlows :
        /\ Len(reqs[f]) = 1
        /\ reqs[f][1].params.error = NoVal
        /\ reqs[f][1].params.code = NoVal
        /\ promise[f].state = "rejected"
        /\ promise[f].err.msg = "Authorization code not received"
        /\ listener[f] = "closed"
        /\ EventsOf(f, {"token"}) = <<>>

\* C7 (as claimed): when a callback carried a code and the token endpoint
\* answered it with a non-success status, the flow never resolves with a
\* Token Set, and once settled it is rejected with "Token exchange failed"
\* carrying that status and that body.
C7_FailedExchangeRejects ==
    \A f \in AllFlows : \A i \in DOMAIN reqs[f] :
        LET r == reqs[f][i] IN
        (r.answer # NoAnswer /\ ~r.answer.threw /\ r.answer.status \notin 200..299) =>
            /\ promise[f].state # "resolved"
            /\ promise[f].state = "rejected" =>
                  /\ promise[f].err.msg =
                        "Token exchange failed: ${status} ${statusText} - ${errorText}"
                  /\ promise[f].err.args[1] = ToString(r.answer.status)
                  /\ promise[f].err.args[3] = r.answer.body

\* C8 (as claimed): when a callback carried a code and the token endpoint
\* answered it with HTTP success and a JSON body, the flow, once settled, is
\* resolved with exactly that body; and the flow resolves only so.
C8_SuccessfulExchangeResolves ==
    \A f \in AllFlows :
        /\ \A i \in DOMAIN reqs[f] :
              LET r == reqs[f][i] IN
              (/\ r.answer # NoAnswer /\ ~r.answer.threw
               /\ r.answer.status \in 200..299 /\ r.answer.body # "not json"
               /\ promise[f].state # "pending")
                  => /\ promise[f].state = "resolved"
                     /\ promise[f].tokenSet = ParseJson(r.answer.body)
        /\ promise[f].state = "resolved" =>
              \E i \in DOMAIN reqs[f] :
                  /\ reqs[f][i].answer # NoAnswer
                  /\ reqs[f][i].answer.status \in 200..299
                  /\ promise[f].tokenSet = ParseJson(reqs[f][i].answer.body)

\* Whether the recorded answer makes the step of event e fail for good
FailedStep(f, e) ==
    \/ e.kind \in {"discover", "register"} /\ e.answer = "threw"
    \/ e.kind = "probe3" /\ ~ProbeHit(e)
    \/ e.kind = "probe1" /\ opts[f].mcpUrl = "not a url"

\* C9: when all three discovery strategies have failed the flow is rejected
\* with the discovery error and has issued nothing but the three probes; no
\* strategy is ever probed twice.
C9_DiscoveryExhaustedRejects ==
    \A f \in AllFlows :
        LET P == EventsOf(f, ProbeKinds) IN
        /\ \A k \in ProbeKinds : Len(EventsOf(f, {k})) <= 1
        /\ (Len(P) = 3 /\ \A k \in DOMAIN P : ~ProbeHit(P[k])) =>
              /\ promise[f].state = "rejected"
              /\ promise[f].err.msg = "Could not find OAuth Authorization Server Metadata or OpenID Connect Discovery endpoint"
              /\ promise[f].by = "throw"
              /\ log[f] = P
              /\ local[f].discoveryUrl = NoVal
              /\ listener[f] = "none"

\* C9 witness: three failed probes and the rejection
C9_Witness ==
    \E f \in AllFlows :
        LET P == EventsOf(f, ProbeKinds) IN
        /\ Len(P) = 3
        /\ \A k \in DOMAIN P : ~ProbeHit(P[k])
        /\ promise[f].state = "rejected"

\* C10: a failure of discovery, of the issuer metadata fetch or of client
\* registration rejects the flow at that step: the failed request is the
\* last thing the flow issued, no client is in use, the browser was not
\* launched and no listener was bound.  Conversely the authorization URL,
\* the browser, the listener and the token exchange are reached only with
\* the metadata fetched and a dynamically registered client.
C10_EarlyFailureRejects ==
    \A f \in AllFlows :
        /\ \A i \in DOMAIN log[f] :
              FailedStep(f, log[f][i]) =>
                  /\ i = Len(log[f])
                  /\ promise[f].state = "rejected" /\ promise[f].by = "throw"
                  /\ pc[f] = "done"
                  /\ listener[f] = "none" /\ reqs[f] = <<>>
                  /\ EventsOf(f, {"authorizationUrl", "open", "listen", "token"}) = <<>>
        /\ (EventsOf(f, {"authorizationUrl", "open", "listen", "token"}) # <<>>
              \/ listener[f] # "none") =>
                  /\ \E i \in DOMAIN log[f] :
                        log[f][i].kind = "discover" /\ log[f][i].answer = "ok"
                  /\ \E i \in DOMAIN log[f] :
                        log[f][i].kind = "register" /\ log[f][i].answer = "ok"
                  /\ local[f].client_id \in ClientIds
                  /\ \A i \in DOMAIN log[f] :
                        \A p \in log[f][i].params :
                            p[1] = "client_id" => p[2] \in ClientIds

\* C10 witness: registration was rejected and the flow with it
C10_Witness ==
    \E f \in AllFlows :
        /\ log[f] # <<>>
        /\ log[f][Len(log[f])].kind = "register"
        /\ log[f][Len(log[f])].answer = "threw"
        /\ promise[f].state = "rejected"
        /\ listener[f] = "none"

\* C11: when binding the listener fails the flow is rejected with "Failed to
\* start callback server: <message>"; the one bind attempt, on the flow's
\* port, is the last thing the flow does; no flow ever binds twice.
C11_BindFailureRejects ==
    \A f \in AllFlows :
        LET B == EventsOf(f, {"listen"}) IN
        /\ Len(B) <= 1
        /\ \A k \in DOMAIN B : B[k].params = {<<"port", ToString(Port(f))>>}
        /\ (listener[f] = "failed" \/ \E k \in DOMAIN B : B[k].answer = "EADDRINUSE") =>
              /\ listener[f] = "failed"
              /\ promise[f].state = "rejected"
              /\ promise[f].by = "listen"
              /\ promise[f].err =
                    [msg |-> "Failed to start callback server: ${err.message}",
                     args |-> <<"EADDRINUSE">>]
              /\ log[f][Len(log[f])].kind = "listen"
              /\ reqs[f] = <<>>

\* C11 witness: the port was taken, the flow is rejected
C11_Witness ==
    \E f \in AllFlows :
        /\ Port(f) \in busyPorts
        /\ listener[f] = "failed"
        /\ promise[f].state = "rejected"
        /\ promise[f].by = "listen"

\* C13 (as claimed): within one invocation the metadata fetch, the client
\* registration and the token-exchange POST are each issued at most once,
\* and a failed step is the last request the flow issues.
C13_NothingIssuedTwice ==
    \A f \in AllFlows :
        /\ Len(EventsOf(f, {"discover"})) <= 1
        /\ Len(EventsOf(f, {"register"})) <= 1
        /\ Len(EventsOf(f, {"token"})) <= 1
        /\ \A i \in DOMAIN log[f] : FailedStep(f, log[f][i]) => i = Len(log[f])

\* The requests of flow f whose handler sent a token-exchange POST, in order
ExchangingSeq(f) ==
    SelectSeq(reqs[f], LAMBDA r : ~Truthy(r.params.error) /\ Truthy(r.params.code))

\* The value of parameter name in event e (NoVal when absent)
ParamOf(e, name) ==
    IF \E p \in e.params : p[1] = name
    THEN (CHOOSE p \in e.params : p[1] = name)[2]
    ELSE NoVal

\* C17: every token-exchange request goes to the token endpoint of the
\* issuer metadata and carries exactly grant_type=authorization_code, the
\* code of the callback request that caused it, the redirect_uri and the
\* client_id of the registration and of the authorization URL, and the
\* code_verifier; registration, authorization URL and token request name the
\* same redirect URI.
C17_TokenRequestContents ==
    \A f \in AllFlows :
        LET T == EventsOf(f, {"token"})
            X == ExchangingSeq(f)
            R == EventsOf(f, {"register"})
            A == EventsOf(f, {"authorizationUrl"})
        IN /\ Len(T) = Len(X)
           /\ A # <<>> =>
                 /\ Len(R) = 1
                 /\ ParamOf(A[1], "redirect_uri") = ParamOf(R[1], "redirect_uris")
                 /\ ParamOf(A[1], "client_id") = local[f].client_id
           /\ \A k \in DOMAIN T :
                 /\ Len(R) = 1 /\ Len(A) = 1
                 /\ T[k].url = "https://as.example/token"
                 /\ T[k].params =
                       {<<"grant_type", "authorization_code">>,
                        <<"code", X[k].params.code>>,
                        <<"redirect_uri", ParamOf(R[1], "redirect_uris")>>,
                        <<"client_id", ParamOf(A[1], "client_id")>>,
                        <<"code_verifier", local[f].code_verifier>>}
                 /\ ParamOf(T[k], "redirect_uri") = ParamOf(A[1], "redirect_uri")
                 /\ ParamOf(T[k], "client_id") \in ClientIds

\* C17 witness: a token request was sent by a flow with a redirect URI of
\* its own
C17_Witness ==
    \E f \in AllFlows :
        /\ opts[f].redirectUri = "http://localhost:8080/callback"
        /\ EventsOf(f, {"token"}) # <<>>

\* The port a redirect URI implies: its explicit port, else 443 for https
\* and 80 for http
ImpliedPort(u) ==
    CASE u = "http://localhost:3000/callback" -> "3000"
      [] u = "http://localhost:8080/callback" -> "8080"
      [] u = "https://app.example/callback" -> "443"
      [] u = "http://app.example/callback" -> "80"
      [] OTHER -> NoVal

\* The redirect URI flow f registered and sent in the authorization request
RegisteredRedirectUri(f) == ParamOf(EventsOf(f, {"register"})[1], "redirect_uris")

\* C12 (as claimed): for every options value the listener is bound on the
\* port implied by the redirect URI that was registered and sent in the
\* authorization request.
C12_PortImpliedByRedirectUri ==
    \A f \in AllFlows :
        \A k \in DOMAIN EventsOf(f, {"listen"}) :
            UrlValid(RegisteredRedirectUri(f)) =>
                ParamOf(EventsOf(f, {"listen"})[k], "port") =
                    ImpliedPort(RegisteredRedirectUri(f))

\* C12 (amended): when options.port is not given, the listener is bound on
\* the port implied by the registered redirect URI (3000 when that URI does
\* not parse); when options.port is given, on that port.
C12_PortImpliedUnlessGiven ==
    \A f \in AllFlows :
        \A k \in DOMAIN EventsOf(f, {"listen"}) :
            LET u == RegisteredRedirectUri(f)
                bound == ParamOf(EventsOf(f, {"listen"})[k], "port")
            IN /\ ParamOf(EventsOf(f, {"authorizationUrl"})[1], "redirect_uri") = u
               /\ opts[f].port = NoPort /\ UrlValid(u) => bound = ImpliedPort(u)
               /\ opts[f].port = NoPort /\ ~UrlValid(u) => bound = "3000"
               /\ opts[f].port # NoPort => bound = ToString(opts[f].port[1])

\* C12 witness: an https redirect URI without a port, no options.port, and
\* the listener bound
C12_Witness ==
    \E f \in AllFlows :
        /\ opts[f].redirectUri = "https://app.example/callback"
        /\ opts[f].port = NoPort
        /\ listener[f] = "listening"
        /\ ParamOf(EventsOf(f, {"listen"})[1], "port") = "443"

\* C14: once the listener is bound the promise is pending as long as the
\* listener is open; the listener leaves the open state, and the promise is
\* settled, only through a handled /callback request; before that only a
\* listener error settles it; a request on another path changes neither.
C14_NoTimeout ==
    /\ [](\A f \in AllFlows :
             listener[f] = "listening" =>
                 /\ promise[f].state = "pending"
                 /\ closeCbs[f] = <<>>)
    /\ [][\A f \in AllFlows :
             /\ listener[f] = "listening" /\ listener'[f] # "listening" =>
                   /\ listener'[f] = "closing"
                   /\ \E i \in DOMAIN reqs'[f] : reqs'[f][i].pc = "done"
             /\ listener[f] # "none" /\ promise[f].state = "pending"
                   /\ promise'[f].state # "pending" =>
                   /\ promise'[f].by = "handler"
                   /\ \E i \in DOMAIN reqs[f] : reqs[f][i].pc = "done"
             /\ listener[f] = "none" /\ listener'[f] # "none"
                   /\ promise'[f].state # "pending" =>
                   /\ listener'[f] = "failed"
                   /\ promise'[f].by = "listen"
             /\ others'[f] # others[f] =>
                   UNCHANGED <<listener, promise, closeCbs, reqs, log, pc>>
         ]_vars

\* C14 witness: the listener answered a request on another path, no
\* /callback request came, the promise is pending and the listener open
C14_Witness ==
    \E f \in AllFlows :
        /\ others[f] >= 1
        /\ reqs[f] = <<>>
        /\ listener[f] = "listening"
        /\ promise[f].state = "pending"

\* The verifiers flow f sent in token-exchange requests
SentVerifiers(f) ==
    {ParamOf(EventsOf(f, {"token"})[k], "code_verifier") :
        k \in DOMAIN EventsOf(f, {"token"})}

\* C15: two invocations never hold the same verifier or the same challenge;
\* the challenge of an invocation is derived from its verifier and is the
\* one in its authorization URL; the verifier it sends at token exchange is
\* that verifier, and no other invocation sends it.
C15_FreshPkcePair ==
    /\ \A f, g \in AllFlows :
          f # g /\ local[f].code_verifier # NoVal =>
              /\ local[f].code_verifier # local[g].code_verifier
              /\ local[f].code_challenge # local[g].code_challenge
              /\ SentVerifiers(f) \cap SentVerifiers(g) = {}
    /\ \A f \in AllFlows :
          LET A == EventsOf(f, {"authorizationUrl"}) IN
          /\ Len(A) <= 1
          /\ local[f].code_verifier # NoVal <=> Len(A) = 1
          /\ Len(A) = 1 =>
                /\ ParamOf(A[1], "code_challenge") = local[f].code_challenge
                /\ local[f].code_challenge =
                      "S256-of-" \o local[f].code_verifier
          /\ SentVerifiers(f) \subseteq {local[f].code_verifier}
          /\ \A v \in SentVerifiers(f) :
                ParamOf(A[1], "code_challenge") = "S256-of-" \o v

\* C15 witness: two invocations bound the same port one after the other and
\* each sent a token-exchange request
C15_Witness ==
    /\ opts[2].redirectUri = NoVal
    /\ \A f \in AllFlows : SentVerifiers(f) # {}

\* What belongs to flow f
FlowState(f) == <<pc[f], local[f], log[f], listener[f], reqs[f], closeCbs[f], promise[f]>>

\* C16: every token-exchange request of a flow carries the client_id of
\* that flow's registration, that flow's redirect URI and that flow's
\* code_verifier; every step changes the state of one flow only; when the
\* listener of one flow closes, the listener and the promise of the other
\* flow stay as they are.
C16_FlowsShareNothing ==
    /\ [](\A f \in AllFlows :
             \A k \in DOMAIN EventsOf(f, {"token"}) :
                 LET t == EventsOf(f, {"token"})[k] IN
                 /\ ParamOf(t, "client_id") = ClientIdOf[f]
                 /\ ParamOf(t, "redirect_uri") =
                       ParamOf(EventsOf(f, {"register"})[1], "redirect_uris")
                 /\ ParamOf(t, "code_verifier") = local[f].code_verifier
                 /\ \A g \in AllFlows \ {f} :
                       /\ ParamOf(t, "client_id") # local[g].client_id
                       /\ ParamOf(t, "code_verifier") # local[g].code_verifier)
    /\ [][\A f, g \in AllFlows :
             f # g =>
                 /\ FlowState(f)' # FlowState(f) => FlowState(g)' = FlowState(g)
                 /\ listener[f] \in {"listening", "closing"} /\ listener'[f] # listener[f] =>
                       /\ listener'[g] = listener[g]
                       /\ promise'[g] = promise[g]
                       /\ closeCbs'[g] = closeCbs[g]
         ]_vars

\* C16 witness: both flows listen at the same time, one has sent its
\* token-exchange request and closed while the other still listens
C16_Witness ==
    \E f, g \in AllFlows :
        /\ f # g
        /\ EventsOf(f, {"token"}) # <<>>
        /\ listener[f] = "closed"
        /\ promise[f].state # "pending"
        /\ listener[g] = "listening"
        /\ promise[g].state = "pending"

\* Whether callback request i passed validateState and went on to the
\* code-for-token exchange
Exchanged(i) == gitReqs[i].userId # NoVal

\* Whether the state of callback request i was never issued, or had been
\* taken out of userSessions by an earlier request
UnknownState(i) ==
    \/ gitReqs[i].state \notin IssuedStates
    \/ \E k \in 1..(i - 1) :
          gitReqs[k].state = gitReqs[i].state /\ Truthy(gitReqs[k].code)

\* C18 (as claimed): a callback request that carries a state which was not
\* issued, or is no longer in userSessions, is answered 400 'Invalid or
\* expired state' and triggers no exchange.
C18_UnknownStateInvalid ==
    \A i \in DOMAIN gitReqs :
        Truthy(gitReqs[i].state) /\ UnknownState(i) =>
            /\ gitReqs[i].status = 400
            /\ gitReqs[i].error = "Invalid or expired state"
            /\ ~Exchanged(i)

\* C18 (amended): such a request is answered 400 and triggers no exchange;
\* the message is 'Invalid or expired state' when the request carries a code
\* and a state, 'Missing code or state parameter' otherwise; the step that
\* answers it leaves userTokens as it is.
C18_UnknownStateRejected ==
    /\ [](\A i \in DOMAIN gitReqs :
             UnknownState(i) =>
                 /\ gitReqs[i].status = 400
                 /\ gitReqs[i].pc = "done"
                 /\ ~Exchanged(i)
                 /\ gitReqs[i].token = NoVal
                 /\ gitReqs[i].error =
                       IF Truthy(gitReqs[i].code) /\ Truthy(gitReqs[i].state)
                       THEN "Invalid or expired state"
                       ELSE "Missing code or state parameter")
    /\ [][Len(gitReqs') > Len(gitReqs) /\ gitReqs'[Len(gitReqs')].status = 400 =>
             userTokens' = userTokens]_vars

\* C18 witness: a request with a code and a forged state got 400 while a
\* state was outstanding
C18_Witness ==
    \E i \in DOMAIN gitReqs :
        /\ gitReqs[i].state \in ForgedStates
        /\ Truthy(gitReqs[i].code)
        /\ gitReqs[i].status = 400
        /\ DOMAIN userSessions # {}

\* C19: for every issued state at most one callback request passes
\* validation and reaches the exchange; the first request that presents it
\* to validateState takes it out of userSessions, and every later request
\* with that state is answered 400 without an exchange.
C19_StateSingleUse ==
    /\ \A s \in IssuedStates :
          Cardinality({i \in DOMAIN gitReqs : gitReqs[i].state = s /\ Exchanged(i)}) <= 1
    /\ \A i \in DOMAIN gitReqs :
          Truthy(gitReqs[i].code) /\ Truthy(gitReqs[i].state) =>
              /\ gitReqs[i].state \notin DOMAIN userSessions
              /\ \A j \in DOMAIN gitReqs :
                    j > i /\ gitReqs[j].state = gitReqs[i].state =>
                        /\ gitReqs[j].status = 400
                        /\ ~Exchanged(j)

\* C19 witness: an issued state was presented twice with a code; the first
\* request went on to the exchange, the second got 400
C19_Witness ==
    \E i, j \in DOMAIN gitReqs :
        /\ i < j
        /\ gitReqs[i].state = gitReqs[j].state
        /\ Exchanged(i)
        /\ Truthy(gitReqs[j].code)
        /\ gitReqs[j].status = 400
        /\ gitReqs[j].error = "Invalid or expired state"

\* Whether some callback request whose state was issued to userId obtained
\* the given token from GitHub
TokenIssuedFor(userId, token) ==
    \E i \in DOMAIN gitReqs :
        /\ gitReqs[i].userId = userId
        /\ gitReqs[i].token = token
        /\ [state |-> gitReqs[i].state, userId |-> userId] \in issued

\* The entry of userTokens for userId (NoVal when there is none)
TokenEntry(m, userId) == IF MapHas(m, userId) THEN MapGet(m, userId).token ELSE NoVal

\* C20: the token stored under a userId was obtained by a callback whose
\* state /auth/github had issued to that userId; a step that writes the
\* entry of one userId is the exchange of such a callback and leaves every
\* other entry as it was; a clone for a userId is given the token stored
\* under that userId.
C20_TokensIsolated ==
    /\ [](\A u \in DOMAIN userTokens : TokenIssuedFor(u, MapGet(userTokens, u).token))
    /\ [](lastClone.called =>
             /\ lastClone.accessToken # NoVal
             /\ TokenIssuedFor(lastClone.userId, lastClone.accessToken))
    /\ [][\A u \in UserIds \cup {"anonymous"} :
             TokenEntry(userTokens', u) # TokenEntry(userTokens, u) =>
                 /\ \E i \in DOMAIN gitReqs :
                       /\ gitReqs[i].pc = "exchange"
                       /\ gitReqs'[i].pc = "userinfo"
                       /\ gitReqs[i].userId = u
                       /\ [state |-> gitReqs[i].state, userId |-> u] \in issued
                       /\ TokenEntry(userTokens', u) = gitReqs'[i].token
                 /\ \A v \in (UserIds \cup {"anonymous"}) \ {u} :
                       TokenEntry(userTokens', v) = TokenEntry(userTokens, v)
         ]_vars
    /\ [][lastClone' # lastClone /\ lastClone'.called =>
             /\ UNCHANGED userTokens
             /\ lastClone'.accessToken = TokenEntry(userTokens, lastClone'.userId)
         ]_vars

\* C20 witness: two users hold different tokens and a clone ran for one of
\* them
C20_Witness ==
    /\ DOMAIN userTokens = UserIds
    /\ MapGet(userTokens, "alice").token # MapGet(userTokens, "bob").token
    /\ lastClone.called
    /\ lastClone.accessToken = MapGet(userTokens, lastClone.userId).token

\* Whether some /auth/callback for a state issued to userId completed its
\* token exchange
ExchangeCompletedFor(userId) ==
    \E i \in DOMAIN gitReqs :
        /\ gitReqs[i].userId = userId
        /\ gitReqs[i].token # NoVal
        /\ [state |-> gitReqs[i].state, userId |-> userId] \in issued

\* C21: userTokens holds an entry for a userId exactly when a callback for a
\* state issued to that userId completed its token exchange; /auth/status
\* answers authorized=true exactly when userTokens holds an entry for the
\* userId asked for, with authUrl null exactly when authorized; without
\* userId it answers 400.
C21_StatusReportsTokens ==
    /\ [](\A u \in UserIds \cup {"anonymous"} :
             MapHas(userTokens, u) <=> ExchangeCompletedFor(u))
    /\ [](lastStatus.status = 200 =>
             /\ Truthy(lastStatus.userId)
             /\ lastStatus.authUrl = "null" <=> lastStatus.authorized)
    /\ [](lastStatus # NoStatus /\ ~Truthy(lastStatus.userId) => lastStatus.status = 400)
    /\ [][lastStatus' # lastStatus =>
             IF Truthy(lastStatus'.userId)
             THEN /\ lastStatus'.status = 200
                  /\ lastStatus'.authorized <=> MapHas(userTokens, lastStatus'.userId)
                  /\ lastStatus'.authorized <=> ExchangeCompletedFor(lastStatus'.userId)
             ELSE lastStatus'.status = 400
         ]_vars

\* C21 witness: the status of a user who completed the exchange was asked
\* for while another user had only started a flow
C21_Witness ==
    /\ lastStatus.status = 200
    /\ lastStatus.authorized
    /\ lastStatus.authUrl = "null"
    /\ \E x \in issued : x.userId # lastStatus.userId /\ ~MapHas(userTokens, x.userId)

\* C22: cloneWithUserCredentials is called only for a request with userId
\* and repositoryUrl whose userId has an entry in userTokens, stored by a
\* completed exchange of that user; a request without userId or
\* repositoryUrl is answered 400 and one without a stored token 401 with the
\* authUrl of the user, neither calling the clone.
C22_CloneNeedsToken ==
    /\ [](lastClone.called =>
             /\ Truthy(lastClone.userId) /\ Truthy(lastClone.repositoryUrl)
             /\ lastClone.accessToken # NoVal
             /\ lastClone.status \in {200, 500}
             /\ ExchangeCompletedFor(lastClone.userId))
    /\ [](lastClone.status \in {400, 401} => ~lastClone.called)
    /\ [](lastClone.status = 401 => lastClone.authUrl = AuthUrlFor(lastClone.userId))
    /\ [](lastClone # NoClone
             /\ (~Truthy(lastClone.userId) \/ ~Truthy(lastClone.repositoryUrl)) =>
             lastClone.status = 400)
    /\ [][lastClone' # lastClone =>
             /\ lastClone'.called =>
                   /\ MapHas(userTokens, lastClone'.userId)
                   /\ lastClone'.accessToken = MapGet(userTokens, lastClone'.userId).token
             /\ Truthy(lastClone'.userId) /\ Truthy(lastClone'.repositoryUrl)
                   /\ ~MapHas(userTokens, lastClone'.userId) =>
                   lastClone'.status = 401
         ]_vars

\* C22 witness: a clone request of a user without a token was answered 401
\* while another user holds one
C22_Witness ==
    /\ lastClone.status = 401
    /\ ~lastClone.called
    /\ DOMAIN userTokens # {}

\* C23 (as claimed): a /auth/github request without userId records no state
\* in userSessions and gets no authorization URL: every state the service
\* issued, and every session it holds, belongs to a userId some request
\* carried.
C23_NoFlowWithoutUserId ==
    /\ \A x \in issued : x.userId \in UserIds
    /\ \A st \in DOMAIN userSessions : MapGet(userSessions, st).userId \in UserIds

\* What each script needs, as the documentation of the scripts lists it
RequiredBy(name) ==
    CASE name = "example-simple.js" -> {"ANTHROPIC_API_KEY"}
      [] name = "example-jira-mcp.js" -> {"ANTHROPIC_API_KEY", "MCP_JIRA_ENDPOINT"}
      [] name = "example-git-mcp.js" -> {"ANTHROPIC_API_KEY", "MCP_GIT_ENDPOINT"}
      [] name = "example-official-jira-mcp-with-pkce-token.js" -> {"ANTHROPIC_API_KEY"}
      [] name = "example-get-token.js" -> {"argv[2]"}
      [] OTHER -> {}

\* C24: a script that lacks one of the credentials or arguments it needs
\* never issues an API call or starts the OAuth flow, and when it has
\* ended it has printed a message about a missing requirement and its exit
\* status is 1.
C24_MissingCredentialExits ==
    RequiredBy(script.name) \ script.has # {} =>
        /\ script.calls = <<>>
        /\ script.phase \in {"checks", "done"}
        /\ script.phase = "done" =>
              /\ script.exit = 1
              /\ Len(script.printed) = 1
              /\ \E r \in RequiredBy(script.name) \ script.has :
                    script.printed[1] = Remediation(r)

\* C24 witness: the Jira script with an API key but without its MCP
\* endpoint has ended
C24_Witness ==
    /\ script.name = "example-jira-mcp.js"
    /\ "ANTHROPIC_API_KEY" \in script.has
    /\ "MCP_JIRA_ENDPOINT" \notin script.has
    /\ script.phase = "done"
    /\ script.exit = 1

\* C25: a callback that presents, with a code, a state userSessions holds
\* goes on to the exchange under the bound userId when at most 5 minutes
\* (300000 ms) have passed since the state was issued, and is answered 400
\* 'Invalid or expired state' without an exchange when more have passed; in
\* both cases the state is gone from userSessions afterwards.
C25_StateValidFiveMinutes ==
    /\ [](\A st \in DOMAIN userSessions : MapGet(userSessions, st).timestamp <= now)
    /\ [][Len(gitReqs') > Len(gitReqs) =>
             LET r == gitReqs'[Len(gitReqs')] IN
             Truthy(r.code) /\ MapHas(userSessions, r.state) =>
                 /\ ~MapHas(userSessions', r.state)
                 /\ now - MapGet(userSessions, r.state).timestamp <= 300000 =>
                       /\ r.pc = "exchange"
                       /\ r.userId = MapGet(userSessions, r.state).userId
                 /\ now - MapGet(userSessions, r.state).timestamp > 300000 =>
                       /\ r.pc = "done"
                       /\ r.status = 400
                       /\ r.error = "Invalid or expired state"
                       /\ r.userId = NoVal
         ]_vars

\* C25 witness: a state was presented for the first time more than five
\* minutes after it was issued, got 400 and is no longer held
C25_Witness ==
    \E i \in DOMAIN gitReqs :
        /\ gitReqs[i].state \in IssuedStates
        /\ \A k \in 1..(i - 1) : gitReqs[k].state # gitReqs[i].state
        /\ gitReqs[i].status = 400
        /\ gitReqs[i].error = "Invalid or expired state"
        /\ ~MapHas(userSessions, gitReqs[i].state)

\* C26 (as claimed): a callback that ended with an error response left
\* userTokens as it was: every entry of userTokens was stored by a callback
\* that answered success (or has not answered yet).
C26_ErrorLeavesTokensUnchanged ==
    \A u \in DOMAIN userTokens :
        \E i \in DOMAIN gitReqs :
            /\ gitReqs[i].userId = u
            /\ gitReqs[i].token = MapGet(userTokens, u).token
            /\ gitReqs[i].pc = "done" => gitReqs[i].status = 200

\* Position of a logged step in the order of getPkceAccessToken
StepRank(kind) ==
    CASE kind = "probe1" -> 1
      [] kind = "probe2" -> 2
      [] kind = "probe3" -> 3
      [] kind = "discover" -> 4
      [] kind = "register" -> 5
      [] kind = "authorizationUrl" -> 6
      [] kind = "open" -> 7
      [] kind = "listen" -> 8
      [] kind = "token" -> 9
      [] OTHER -> 0

\* Callback handlers of flow f that are still awaiting their token exchange
PendingHandlers(f) == {i \in DOMAIN reqs[f] : reqs[f][i].pc # "done"}

\* The part of C27 that does not depend on how many callbacks arrive: the
\* order of the logged steps up to the listener bind
C27_SetupOrder ==
    \A f \in AllFlows :
        /\ \A i, j \in DOMAIN log[f] :
              i < j => StepRank(log[f][i].kind) <= StepRank(log[f][j].kind)
        /\ EventsOf(f, {"open"}) # <<>> => opts[f].openBrowser
        /\ EventsOf(f, {"listen"}) # <<>> => Len(EventsOf(f, {"authorizationUrl"})) = 1

\* C27 (as claimed): the flow is one linear chain. The logged steps appear in
\* the order discovery probes, metadata fetch, registration, authorization
\* URL, browser launch (only when openBrowser is set), listener bind, token
\* exchange; the authorization URL is logged before the listener is bound;
\* at most one callback handler is in progress at a time, and once the
\* listener was told to close or the promise settled, no handler is still
\* in progress.
C27_LinearChain ==
    /\ C27_SetupOrder
    /\ \A f \in AllFlows :
          /\ Cardinality(PendingHandlers(f)) <= 1
          /\ (closeCbs[f] # <<>> \/ promise[f].state # "pending") =>
                PendingHandlers(f) = {}

\* C28: an /auth/callback request without code or without state is answered
\* 400 'Missing code or state parameter' at once: it is bound to no user,
\* starts no token exchange and stores no token, and the step that handles
\* it leaves userSessions and userTokens as they were, so a state that was
\* outstanding is still outstanding.
C28_MissingParamsRejected ==
    /\ [](\A i \in DOMAIN gitReqs :
             (~Truthy(gitReqs[i].code) \/ ~Truthy(gitReqs[i].state)) =>
                /\ gitReqs[i].pc = "done"
                /\ gitReqs[i].status = 400
                /\ gitReqs[i].error = "Missing code or state parameter"
                /\ ~Exchanged(i)
                /\ gitReqs[i].token = NoVal)
    /\ [][Len(gitReqs') > Len(gitReqs) =>
             LET r == gitReqs'[Len(gitReqs')] IN
             (~Truthy(r.code) \/ ~Truthy(r.state)) =>
                 UNCHANGED <<userSessions, userTokens>>
       ]_vars

\* C28 witness: a request that carried an issued state but no code was
\* answered 400, and that state is still in userSessions
C28_Witness ==
    \E i \in DOMAIN gitReqs :
        /\ ~Truthy(gitReqs[i].code)
        /\ gitReqs[i].state \in IssuedStates
        /\ gitReqs[i].status = 400
        /\ MapHas(userSessions, gitReqs[i].state)

====
